---- MODULE Spec2Model ----
(***************************************************************************)
(* Model of the Uptime Kuma -> Telegram webhook relay (src/main.go).       *)
(*                                                                         *)
(* A Go string / []byte is modelled as a run-length encoded byte sequence: *)
(* a sequence of pairs <<c, n>> standing for n >= 1 copies of the byte c,  *)
(* kept canonical (adjacent runs hold different bytes).  This keeps the    *)
(* program's real size limits (1 MiB, 3900, 512) checkable.                *)
(***************************************************************************)
EXTENDS Integers, Sequences, FiniteSets, TLC

(* ------------------------------------------------------------------------*)
(* Byte strings                                                            *)
(* ------------------------------------------------------------------------*)

\* n copies of the byte c
Rep(c, n) == IF n = 0 THEN <<>> ELSE << <<c, n>> >>

\* Go's string concatenation a + b (builder.WriteString), kept canonical
Cat(a, b) ==
    IF a = <<>> THEN b
    ELSE IF b = <<>> THEN a
    ELSE IF a[Len(a)][1] = b[1][1]
         THEN SubSeq(a, 1, Len(a) - 1)
                \o << <<b[1][1], a[Len(a)][2] + b[1][2]>> >>
                \o Tail(b)
         ELSE a \o b

RECURSIVE Str(_)
\* the byte string spelled by a tuple of one-byte strings
Str(cs) == IF cs = <<>> THEN <<>> ELSE Cat(Rep(cs[1], 1), Str(Tail(cs)))

RECURSIVE Join(_)
\* concatenation of a tuple of byte strings
Join(parts) == IF parts = <<>> THEN <<>> ELSE Cat(parts[1], Join(Tail(parts)))

RECURSIVE ByteLen(_)
\* Go's len(s): the number of bytes (summed by halves)
ByteLen(s) ==
    IF s = <<>> THEN 0
    ELSE IF Len(s) = 1 THEN s[1][2]
    ELSE LET h == Len(s) \div 2 IN
         ByteLen(SubSeq(s, 1, h)) + ByteLen(SubSeq(s, h + 1, Len(s)))

RECURSIVE Take(_, _)
\* Go's s[:k] for 0 <= k; the whole of s when k >= len(s)
Take(s, k) ==
    IF k <= 0 \/ s = <<>> THEN <<>>
    ELSE IF s[1][2] >= k THEN << <<s[1][1], k>> >>
    ELSE IF Len(s) = 1 THEN s
    ELSE LET h == Len(s) \div 2
             left == SubSeq(s, 1, h)
             n == ByteLen(left)
         IN  IF k <= n THEN Take(left, k)
             ELSE left \o Take(SubSeq(s, h + 1, Len(s)), k - n)

RECURSIVE Drop(_, _)
\* Go's s[k:] for 0 <= k; empty when k >= len(s)
Drop(s, k) ==
    IF k <= 0 \/ s = <<>> THEN s
    ELSE IF s[1][2] > k THEN << <<s[1][1], s[1][2] - k>> >> \o Tail(s)
    ELSE IF Len(s) = 1 THEN <<>>
    ELSE LET h == Len(s) \div 2
             left == SubSeq(s, 1, h)
             n == ByteLen(left)
         IN  IF k >= n THEN Drop(SubSeq(s, h + 1, Len(s)), k - n)
             ELSE Drop(left, k) \o SubSeq(s, h + 1, Len(s))

HasPrefix(s, p) == Take(s, ByteLen(p)) = p

\* the white space strings.TrimSpace removes (ASCII part)
Whitespace == {" ", "\n", "\t", "\r"}

RECURSIVE TrimLeft(_)
TrimLeft(s) == IF s # <<>> /\ s[1][1] \in Whitespace THEN TrimLeft(Tail(s)) ELSE s

RECURSIVE TrimRight(_)
TrimRight(s) ==
    IF s # <<>> /\ s[Len(s)][1] \in Whitespace
    THEN TrimRight(SubSeq(s, 1, Len(s) - 1))
    ELSE s

\* strings.TrimSpace
TrimSpace(s) == TrimRight(TrimLeft(s))

LowerLetters ==
    <<"a","b","c","d","e","f","g","h","i","j","k","l","m",
      "n","o","p","q","r","s","t","u","v","w","x","y","z">>
UpperLetters ==
    <<"A","B","C","D","E","F","G","H","I","J","K","L","M",
      "N","O","P","Q","R","S","T","U","V","W","X","Y","Z">>

ToUpperByte(c) ==
    IF \E i \in 1..26 : LowerLetters[i] = c
    THEN UpperLetters[CHOOSE i \in 1..26 : LowerLetters[i] = c]
    ELSE c

RECURSIVE ToUpper(_)
\* strings.ToUpper (ASCII letters)
ToUpper(s) ==
    IF s = <<>> THEN <<>>
    ELSE Cat(Rep(ToUpperByte(s[1][1]), s[1][2]), ToUpper(Tail(s)))

(* ------------------------------------------------------------------------*)
(* encoding/json as the handler uses it: json.NewDecoder(...).UseNumber()  *)
(* decoding one value.  Bodies are drawn from an ASCII alphabet without    *)
(* \uXXXX escapes.                                                         *)
(* ------------------------------------------------------------------------*)

JNull == [t |-> "null"]
JBool(b) == [t |-> "bool", b |-> b]
\* UseNumber: a number is kept as json.Number, the literal's text
JNum(lit) == [t |-> "num", lit |-> lit]
JStr(s) == [t |-> "str", s |-> s]
JArr(elems) == [t |-> "arr", elems |-> elems]
\* map[string]any: a function from key strings to values
JObj(m) == [t |-> "obj", m |-> m]
EmptyMap == [k \in {} |-> JNull]
MapPut(m, k, v) == [x \in DOMAIN m \cup {k} |-> IF x = k THEN v ELSE m[x]]

ParseFail == [ok |-> FALSE]
ParseOK(v, rest) == [ok |-> TRUE, v |-> v, rest |-> rest]

\* the input with its first byte removed
Peel(s) ==
    IF s = <<>> THEN s
    ELSE IF s[1][2] = 1 THEN Tail(s)
    ELSE << <<s[1][1], s[1][2] - 1>> >> \o Tail(s)

RECURSIVE SkipWS(_)
SkipWS(s) == IF s # <<>> /\ s[1][1] \in Whitespace THEN SkipWS(Tail(s)) ELSE s

Digits == {"0","1","2","3","4","5","6","7","8","9"}

RECURSIVE DigitSpan(_)
\* the number of leading digit bytes
DigitSpan(s) ==
    IF s # <<>> /\ s[1][1] \in Digits THEN s[1][2] + DigitSpan(Tail(s)) ELSE 0

StartsWith(s, bytes) == s # <<>> /\ s[1][1] \in bytes

\* the scanner's number states, each given what was consumed so far (n) and
\* the rest of the input; 0 says the literal is malformed
NumberEnd(n, digits) == IF digits = 0 THEN 0 ELSE n + digits
NumberExpDigits(n, s) == NumberEnd(n, DigitSpan(s))
NumberExpSign(n, s) ==
    IF StartsWith(s, {"+", "-"}) THEN NumberExpDigits(n + 1, Peel(s))
    ELSE NumberExpDigits(n, s)
NumberExp(n, s) ==
    IF StartsWith(s, {"e", "E"}) THEN NumberExpSign(n + 1, Peel(s)) ELSE n
NumberFracDigits(n, s, digits) ==
    IF digits = 0 THEN 0 ELSE NumberExp(n + digits, Drop(s, digits))
NumberFrac(n, s) ==
    IF StartsWith(s, {"."})
    THEN NumberFracDigits(n + 1, Peel(s), DigitSpan(Peel(s)))
    ELSE NumberExp(n, s)
NumberIntDigits(n, s, digits) ==
    IF digits = 0 THEN 0 ELSE NumberFrac(n + digits, Drop(s, digits))
NumberInt(n, s) ==
    IF StartsWith(s, {"0"}) THEN NumberFrac(n + 1, Peel(s))
    ELSE NumberIntDigits(n, s, DigitSpan(s))

\* the length of the JSON number literal s starts with, 0 when there is none
NumberSpan(s) ==
    IF StartsWith(s, {"-"}) THEN NumberInt(1, Peel(s)) ELSE NumberInt(0, s)

StringEscapes == {"\"", "\\", "/", "b", "f", "n", "r", "t"}
Unescape(e) ==
    CASE e = "n" -> "\n"
      [] e = "t" -> "\t"
      [] e = "r" -> "\r"
      [] e = "b" -> "BS"
      [] e = "f" -> "FF"
      [] OTHER -> e

RECURSIVE ScanString(_, _)
\* the rest of a string literal after its opening quote; acc is the value so far
ScanString(s, acc) ==
    IF s = <<>> THEN ParseFail
    ELSE IF s[1][1] = "\"" THEN ParseOK(acc, Peel(s))
    ELSE IF s[1][1] = "\\"
         THEN IF StartsWith(Peel(s), StringEscapes)
              THEN ScanString(Drop(s, 2), Cat(acc, Rep(Unescape(Peel(s)[1][1]), 1)))
              ELSE ParseFail
    ELSE IF s[1][1] \in {"\n", "\t", "\r"} THEN ParseFail
    ELSE ScanString(Tail(s), Cat(acc, <<s[1]>>))

\* a literal name (true, false, null) at the head of s
ParseLiteral(s, name, v) ==
    IF HasPrefix(s, name) THEN ParseOK(v, Drop(s, ByteLen(name))) ELSE ParseFail

ParseNumber(s, n) ==
    IF n = 0 THEN ParseFail ELSE ParseOK(JNum(Take(s, n)), Drop(s, n))

ParseString(q) == IF q.ok THEN ParseOK(JStr(q.v), q.rest) ELSE ParseFail

RECURSIVE ParseValueAt(_)
RECURSIVE ParseMembers(_, _)
RECURSIVE ParseMemberColon(_, _)
RECURSIVE ParseMemberValue(_, _, _)
RECURSIVE ParseMemberEnd(_, _)
RECURSIVE ParseElems(_, _)
RECURSIVE ParseElemEnd(_, _)

\* one JSON value at the head of s, which does not start with white space
ParseValueAt(s) ==
    IF s = <<>> THEN ParseFail
    ELSE CASE s[1][1] = "{" ->
                IF StartsWith(SkipWS(Peel(s)), {"}"})
                THEN ParseOK(JObj(EmptyMap), Peel(SkipWS(Peel(s))))
                ELSE ParseMembers(SkipWS(Peel(s)), EmptyMap)
           [] s[1][1] = "[" ->
                IF StartsWith(SkipWS(Peel(s)), {"]"})
                THEN ParseOK(JArr(<<>>), Peel(SkipWS(Peel(s))))
                ELSE ParseElems(SkipWS(Peel(s)), <<>>)
           [] s[1][1] = "\"" -> ParseString(ScanString(Peel(s), <<>>))
           [] s[1][1] = "-" \/ s[1][1] \in Digits -> ParseNumber(s, NumberSpan(s))
           [] s[1][1] = "t" -> ParseLiteral(s, Str(<<"t","r","u","e">>), JBool(TRUE))
           [] s[1][1] = "f" -> ParseLiteral(s, Str(<<"f","a","l","s","e">>), JBool(FALSE))
           [] s[1][1] = "n" -> ParseLiteral(s, Str(<<"n","u","l","l">>), JNull)
           [] OTHER -> ParseFail

\* one JSON value, after optional white space
ParseValue(s) == ParseValueAt(SkipWS(s))

\* the members of an object from its next key on; a repeated key keeps the
\* last value
ParseMembers(s, m) ==
    IF ~StartsWith(s, {"\""}) THEN ParseFail
    ELSE ParseMemberColon(ScanString(Peel(s), <<>>), m)

\* k: the key as scanned
ParseMemberColon(k, m) ==
    IF ~k.ok THEN ParseFail
    ELSE IF ~StartsWith(SkipWS(k.rest), {":"}) THEN ParseFail
    ELSE ParseMemberValue(k.v, ParseValueAt(SkipWS(Peel(SkipWS(k.rest)))), m)

\* v: the member's value as parsed
ParseMemberValue(key, v, m) ==
    IF ~v.ok THEN ParseFail
    ELSE ParseMemberEnd(SkipWS(v.rest), MapPut(m, key, v.v))

\* e: the input after the member
ParseMemberEnd(e, m) ==
    IF StartsWith(e, {"}"}) THEN ParseOK(JObj(m), Peel(e))
    ELSE IF StartsWith(e, {","}) THEN ParseMembers(SkipWS(Peel(e)), m)
    ELSE ParseFail

\* the elements of an array from its next element on
ParseElems(s, acc) == ParseElemEnd(ParseValueAt(SkipWS(s)), acc)

ParseElemEnd(v, acc) ==
    IF ~v.ok THEN ParseFail
    ELSE IF StartsWith(SkipWS(v.rest), {"]"})
         THEN ParseOK(JArr(Append(acc, v.v)), Peel(SkipWS(v.rest)))
    ELSE IF StartsWith(SkipWS(v.rest), {","})
         THEN ParseElems(Peel(SkipWS(v.rest)), Append(acc, v.v))
    ELSE ParseFail

\* a top-level number, string or literal must be followed by white space or
\* the end of the input; what follows an object or array is not looked at
TopLevelValue(r) ==
    IF ~r.ok THEN ParseFail
    ELSE IF r.v.t \in {"obj", "arr"} THEN r
    ELSE IF r.rest = <<>> \/ r.rest[1][1] \in Whitespace THEN r
    ELSE ParseFail

\* Decoder.Decode's reading of the next value of the stream
ReadValue(s) == TopLevelValue(ParseValue(s))

(* ------------------------------------------------------------------------*)
(* Message composer                                                        *)
(* ------------------------------------------------------------------------*)

kMonitor == Str(<<"m","o","n","i","t","o","r">>)
kName == Str(<<"n","a","m","e">>)
kUrl == Str(<<"u","r","l">>)
kStatus == Str(<<"s","t","a","t","u","s">>)
kIncidentReason ==
    Str(<<"i","n","c","i","d","e","n","t","R","e","a","s","o","n">>)
kMsg == Str(<<"m","s","g">>)
kTime == Str(<<"t","i","m","e">>)
kPing == Str(<<"p","i","n","g">>)

NL == Str(<<"\n">>)
LblMonitor == Str(<<"M","o","n","i","t","o","r",":"," ">>)
LblStatus == Str(<<"S","t","a","t","u","s",":"," ">>)
LblReason == Str(<<"R","e","a","s","o","n",":"," ">>)
LblURL == Str(<<"U","R","L",":"," ">>)
LblTime == Str(<<"T","i","m","e",":"," ">>)
LblPing == Str(<<"P","i","n","g",":"," ">>)
RawSeparator == Str(<<"\n","-","-","-","\n">>)
Ellipsis == Str(<<".",".",".">>)

maxRaw == 3900

\* the handler's payload: a map[string]any that may be nil
MapPayload(m) == [nil |-> FALSE, m |-> m]
NilPayload == [nil |-> TRUE, m |-> EmptyMap]

\* variant: a number goes through a float and is printed without decimals,
\* which keeps the digits before the point or exponent
scalarStringFloat(v) ==
    CASE v.t = "str" -> TrimSpace(v.s)
      [] v.t = "num" ->
           SubSeq(v.lit, 1,
                  Cardinality({i \in DOMAIN v.lit :
                                 \A j \in 1..i : v.lit[j][1] \notin {".", "e", "E"}}))
      [] OTHER -> <<>>

\* variant: a boolean is rendered too
scalarStringWithBool(v) ==
    CASE v.t = "str" -> TrimSpace(v.s)
      [] v.t = "num" -> v.lit
      [] v.t = "bool" -> IF v.b THEN Str(<<"t","r","u","e">>)
                         ELSE Str(<<"f","a","l","s","e">>)
      [] OTHER -> <<>>

\* the type switch closing nestedString and stringFromMap; with UseNumber a
\* number arrives as json.Number, never as float64
scalarString(v) ==
    CASE v.t = "str" -> TrimSpace(v.s)
      [] v.t = "num" -> v.lit
      [] OTHER -> <<>>

RECURSIVE nestedValue(_, _)
\* the loop of nestedString: the value at the key path, when every step is
\* a map holding the next key
nestedValue(current, keys) ==
    IF keys = <<>> THEN [ok |-> TRUE, v |-> current]
    ELSE IF current.t # "obj" THEN [ok |-> FALSE]
    ELSE IF keys[1] \notin DOMAIN current.m THEN [ok |-> FALSE]
    ELSE nestedValue(current.m[keys[1]], Tail(keys))

foundString(found) == IF found.ok THEN scalarString(found.v) ELSE <<>>

nestedString(payload, keys) == foundString(nestedValue(JObj(payload.m), keys))

stringFromMap(payload, key) ==
    IF payload.nil THEN <<>>
    ELSE IF key \notin DOMAIN payload.m THEN <<>>
    ELSE scalarString(payload.m[key])

truncateRaw(trimmed) ==
    IF trimmed = <<>> THEN <<>>
    ELSE IF ByteLen(trimmed) > maxRaw THEN Cat(Take(trimmed, maxRaw), Ellipsis)
    ELSE trimmed

fallbackRaw(raw) == truncateRaw(TrimSpace(raw))

\* the value of the Reason line: incidentReason, else msg
firstNonEmpty(a, b) == IF a = <<>> THEN b ELSE a
reasonOf(payload) ==
    firstNonEmpty(stringFromMap(payload, kIncidentReason),
                  stringFromMap(payload, kMsg))

\* the lines buildTelegramMessage writes, in order: label and embedded value
\* (a line is written only when its value is not empty)
fieldLines(payload) ==
    SelectSeq(
      << [label |-> LblMonitor, value |-> nestedString(payload, <<kMonitor, kName>>)],
         [label |-> LblStatus, value |-> ToUpper(stringFromMap(payload, kStatus))],
         [label |-> LblReason, value |-> reasonOf(payload)],
         [label |-> LblURL, value |-> nestedString(payload, <<kMonitor, kUrl>>)],
         [label |-> LblTime, value |-> stringFromMap(payload, kTime)],
         [label |-> LblPing, value |-> stringFromMap(payload, kPing)] >>,
      LAMBDA l : l.value # <<>>)

RECURSIVE builderString(_)
\* the strings.Builder after the given lines were written
builderString(lines) ==
    IF lines = <<>> THEN <<>>
    ELSE Join(<<lines[1].label, lines[1].value, NL, builderString(Tail(lines))>>)

\* variant: the raw excerpt is left out once a field was written
messageFromSummaryOnly(text, rawText) == IF text = <<>> THEN rawText ELSE text

\* the end of buildTelegramMessage: text is the trimmed builder string
messageFrom(text, rawText) ==
    IF text = <<>> THEN rawText
    ELSE IF rawText # <<>> THEN Join(<<text, RawSeparator, rawText>>)
    ELSE text

buildTelegramMessage(payload, raw) ==
    messageFrom(TrimSpace(builderString(fieldLines(payload))), fallbackRaw(raw))

(* ------------------------------------------------------------------------*)
(* Configuration (loadConfig) and the inputs the model draws requests from *)
(* ------------------------------------------------------------------------*)

maxPayloadBytes == 1048576

\* cfg.webhookToken, cfg.telegramBotToken, cfg.telegramChatID are not empty
\* and cfg.requestTimeout is positive, or the process does not start
webhookToken == "tkn"
telegramBotToken == "123:ABC"
telegramChatID == "42"
telegramBaseURL == "https://api.telegram.org"
\* client.requestTimeout, in seconds (the default)
requestTimeout == 10

DQ == Str(<<"\"">>)
Quoted(s) == Join(<<DQ, s, DQ>>)
Member(k, v) == Join(<<Quoted(k), Str(<<":">>), v>>)
RECURSIVE CommaList(_)
CommaList(items) ==
    IF items = <<>> THEN <<>>
    ELSE IF Len(items) = 1 THEN items[1]
    ELSE Join(<<items[1], Str(<<",">>), CommaList(Tail(items))>>)
Object(members) == Join(<<Str(<<"{">>), CommaList(members), Str(<<"}">>)>>)

vUp == Str(<<"u","p">>)
vDemo == Str(<<"D","e","m","o">>)
vAllGood == Str(<<"A","l","l"," ","g","o","o","d">>)

\* the body of the README's smoke test
BodyDemo ==
    Object(<< Member(kMonitor, Object(<<Member(kName, Quoted(vDemo))>>)),
              Member(kStatus, Quoted(vUp)),
              Member(kMsg, Quoted(vAllGood)) >>)
BodyEmptyObject == Object(<<>>)
\* values holding bytes of the MarkdownV2 escape set, numbers as 12.0 and 1.2e1
BodySpecial ==
    Object(<< Member(kStatus, Quoted(Str(<<"d","o","w","n">>))),
              Member(kMonitor,
                     Object(<< Member(kName, Quoted(Str(<<"a",".","b","_","c">>))),
                               Member(kUrl, Quoted(Str(<<"h","t","t","p",":","/","/","x","-","y",".","z">>))) >>)),
              Member(kIncidentReason, Quoted(Str(<<" ","5","0","0"," ","(","e","r","r",")","!"," ">>))),
              Member(kPing, Str(<<"1","2",".","0">>)),
              Member(kTime, Str(<<"1",".","2","e","1">>)) >>)
\* every extracted key present with a value of another type
BodyWrongTypes ==
    Object(<< Member(kStatus, Str(<<"t","r","u","e">>)),
              Member(kMonitor, Quoted(vDemo)),
              Member(kMsg, Str(<<"n","u","l","l">>)),
              Member(kPing, Str(<<"[","1","]">>)),
              Member(kTime, Object(<<>>)) >>)
BodyPending ==
    Object(<< Member(kStatus, Quoted(Str(<<"P","e","n","d","i","n","g">>))),
              Member(kMsg, Quoted(Str(<<"T","e","s","t","i","n","g">>))),
              Member(kPing, Str(<<"7">>)) >>)
BodyMaintenance ==
    Object(<< Member(kStatus, Quoted(Str(<<"m","a","i","n","t","e","n","a","n","c","e">>))) >>)
BodyUnknownStatus ==
    Object(<< Member(kStatus, Quoted(Str(<<"p","a","u","s","e","d">>))),
              Member(kMsg, Quoted(Str(<<"a","\\","\"","b">>))) >>)
BodyNoStatus ==
    Object(<< Member(kMonitor, Object(<<Member(kName, Quoted(vDemo))>>)) >>)
BodyNotJSON == Str(<<"n","o","t"," ","j","s","o","n">>)
BodyArray == Str(<<"[","1","]">>)
BodyNull == Str(<<"n","u","l","l">>)
BodyNumber == Str(<<"1","2">>)
\* an object cut before its closing brace
BodyCut == Join(<<Str(<<"{">>), Member(kStatus, Quoted(vUp))>>)
BodyTrailing == Join(<<Object(<<Member(kStatus, Quoted(vUp))>>), Str(<<" ","}","x">>)>>)
BodyBlank == Str(<<" ","\n"," ">>)
\* an object longer than maxRaw
BodyLong ==
    Object(<< Member(kStatus, Quoted(vUp)),
              Member(Str(<<"p","a","d">>), Quoted(Rep("x", maxRaw))) >>)
\* raw text longer than maxRaw that is no JSON
BodyLongText == Rep("x", maxRaw + 1)
\* exactly maxPayloadBytes long: an object padded with spaces
BodyAtCap ==
    Join(<< Object(<<Member(kStatus, Quoted(vUp))>>),
            Rep(" ", maxPayloadBytes
                       - ByteLen(Object(<<Member(kStatus, Quoted(vUp))>>))) >>)
\* one byte over the cap, the object being its head
BodyOverCapObject == Cat(BodyAtCap, Rep(" ", 1))
\* over the cap, the cut falling inside a string of the object
BodyOverCapCut ==
    Object(<< Member(Str(<<"p","a","d">>), Quoted(Rep("x", maxPayloadBytes))),
              Member(kStatus, Quoted(vUp)) >>)
\* over the cap and no JSON
BodyOverCapText == Rep("x", maxPayloadBytes + 1)

Bodies ==
    { <<>>, BodyBlank, BodyDemo, BodyEmptyObject, BodySpecial, BodyWrongTypes,
      BodyPending, BodyMaintenance, BodyUnknownStatus, BodyNoStatus,
      BodyNotJSON, BodyArray, BodyNull, BodyNumber, BodyCut, BodyTrailing,
      BodyLong, BodyLongText, BodyAtCap, BodyOverCapObject, BodyOverCapCut,
      BodyOverCapText }

Methods == {"POST", "GET", "PUT"}

\* the Authorization header of a request: absent, or present with a value
NoHeader == [present |-> FALSE, value |-> ""]
Header(v) == [present |-> TRUE, value |-> v]
AuthHeaders ==
    { NoHeader, Header(""), Header("Bearer tkn"), Header("Bearer bad"),
      Header("bearer tkn"), Header("tkn"), Header("Bearer tkn2"),
      Header("Bearer ") }

\* an inbound request as it arrives: readErr says the body stream fails
\* before its end (and within the first maxPayloadBytes bytes)
Requests ==
    [method : Methods, auth : AuthHeaders, body : Bodies, readErr : BOOLEAN]
NoRequest ==
    [method |-> "", auth |-> NoHeader, body |-> <<>>, readErr |-> FALSE]

\* the replies the provider may give to the outbound call
ReplyOK == Object(<<Member(Str(<<"o","k">>), Str(<<"t","r","u","e">>))>>)
ReplyNotOK ==
    Object(<< Member(Str(<<"o","k">>), Str(<<"f","a","l","s","e">>)),
              Member(Str(<<"d","e","s","c","r","i","p","t","i","o","n">>),
                     Quoted(Str(<<"B","a","d"," ","R","e","q","u","e","s","t">>))) >>)
ReplyNotOKBare == Object(<<Member(Str(<<"o","k">>), Str(<<"f","a","l","s","e">>))>>)
ReplyHTML == Str(<<"<","h","t","m","l",">">>)
ReplyLong == Cat(Str(<<" ","e","r","r"," ">>), Rep("y", 600))
ProviderReplies ==
    { [status |-> 200, body |-> ReplyOK],
      [status |-> 200, body |-> ReplyNotOK],
      [status |-> 200, body |-> ReplyNotOKBare],
      [status |-> 200, body |-> Object(<<>>)],
      [status |-> 200, body |-> ReplyHTML],
      [status |-> 200, body |-> <<>>],
      [status |-> 200, body |-> Object(<<Member(Str(<<"O","K">>), Str(<<"t","r","u","e">>))>>)],
      [status |-> 200,
       body |-> Object(<< Member(Str(<<"o","k">>), Str(<<"t","r","u","e">>)),
                          Member(Str(<<"d","e","s","c","r","i","p","t","i","o","n">>),
                                 Str(<<"5">>)) >>)],
      [status |-> 299, body |-> ReplyOK],
      [status |-> 300, body |-> ReplyOK],
      [status |-> 400, body |-> ReplyNotOK],
      [status |-> 500, body |-> ReplyLong] }

(* ------------------------------------------------------------------------*)
(* Notification dispatcher: telegramClient.sendMessage                     *)
(* ------------------------------------------------------------------------*)

NoError == [kind |-> "nil"]
ErrEmptyMessage == [kind |-> "empty"]
\* httpClient.Do failed: the deadline passed, the context was cancelled, or
\* the transport failed
ErrRequest(cause) == [kind |-> "request", cause |-> cause]
ErrStatus(status, excerpt) ==
    [kind |-> "status", status |-> status, excerpt |-> excerpt]
ErrDecode == [kind |-> "decode"]
ErrAPI(description) == [kind |-> "api", description |-> description]

UnknownError == Str(<<"u","n","k","n","o","w","n"," ","e","r","r","o","r">>)
maxErrorBody == 512

\* the keys of m that encoding/json matches with the struct field tagged
\* name: the same letters in any case
FieldKeys(m, name) == {k \in DOMAIN m : ToUpper(k) = ToUpper(name)}
\* does the reply object's member for the field hold a value of the
\* field's type, or null, which leaves the field as it is
FieldFits(m, keys, type) == \A k \in keys : m[k].t \in {type, "null"}

okName == Str(<<"o","k">>)
descriptionName == Str(<<"d","e","s","c","r","i","p","t","i","o","n">>)

\* the struct{OK bool; Description string} an object decodes into
responseOK(m, keys) == \E k \in keys : m[k].t = "bool" /\ m[k].b
responseDescription(m, keys) ==
    IF \E k \in keys : m[k].t = "str"
    THEN m[CHOOSE k \in keys : m[k].t = "str"].s
    ELSE <<>>

decodeObject(m) ==
    IF ~FieldFits(m, FieldKeys(m, okName), "bool")
       \/ ~FieldFits(m, FieldKeys(m, descriptionName), "str")
    THEN [err |-> TRUE]
    ELSE [ err |-> FALSE,
           ok |-> responseOK(m, FieldKeys(m, okName)),
           description |-> responseDescription(m, FieldKeys(m, descriptionName)) ]

decodeValue(r) ==
    IF ~r.ok THEN [err |-> TRUE]
    ELSE IF r.v.t = "null"
         THEN [err |-> FALSE, ok |-> FALSE, description |-> <<>>]
    ELSE IF r.v.t # "obj" THEN [err |-> TRUE]
    ELSE decodeObject(r.v.m)

\* json.NewDecoder(resp.Body).Decode(&response)
decodeResponse(b) == decodeValue(ReadValue(b))

\* variant: the ok flag is not looked at
checkDecodedNoFlag(d) == IF d.err THEN ErrDecode ELSE NoError

\* sendMessage's reading of the decoded reply
checkDecoded(d) ==
    IF d.err THEN ErrDecode
    ELSE IF ~d.ok
         THEN ErrAPI(IF d.description = <<>> THEN UnknownError ELSE d.description)
    ELSE NoError

\* sendMessage after httpClient.Do returned a response
interpretResponse(reply) ==
    IF reply.status >= 300
    THEN ErrStatus(reply.status, TrimSpace(Take(reply.body, maxErrorBody)))
    ELSE checkDecoded(decodeResponse(reply.body))

\* the request sendMessage builds
outboundRequest(text) ==
    [ method |-> "POST",
      url |-> telegramBaseURL \o "/bot" \o telegramBotToken \o "/sendMessage",
      contentType |-> "application/json",
      body |-> [ chat_id |-> telegramChatID,
                 text |-> text,
                 disable_web_page_preview |-> TRUE ] ]

\* variant: the text is not trimmed before the check
messageIsEmptyUntrimmed(text) == text = <<>>

\* sendMessage's first check
messageIsEmpty(text) == TrimSpace(text) = <<>>

(* ------------------------------------------------------------------------*)
(* Request handler: webhookHandler, one step per stage                     *)
(* ------------------------------------------------------------------------*)

VARIABLES
    pc,        \* each request's position in the handler
    request,   \* the request as received
    body,      \* the bytes the handler read
    payload,   \* the decoded payload
    message,   \* the composed text
    sendCalls, \* how many times sendMessage was invoked
    outbound,  \* the outbound HTTP calls made, in order
    elapsed,   \* seconds since the outbound context was created
    dropped,   \* the inbound connection is gone (r.Context() is cancelled)
    doResult,  \* what httpClient.Do returned
    sendErr,   \* what sendMessage returned
    response,  \* the response written
    trace      \* the stages run, in order

vars == <<pc, request, body, payload, message, sendCalls, outbound, elapsed,
          dropped, doResult, sendErr, response, trace>>

\* the requests of one run; handlers share no state, so one is enough for
\* what a single request does
Reqs == {"r1"}

\* what httpClient.Do returns: a response, or an error with its cause
NoResult == [kind |-> "none"]
DoResponse(reply) == [kind |-> "response", reply |-> reply]
DoError(cause) == [kind |-> "error", cause |-> cause]

NoResponse == [status |-> 0, allow |-> "", contentType |-> "", body |-> ""]

\* http.Error: a plain-text body and the status; headers set before stay
httpError(w, msg, code) ==
    [ status |-> code, allow |-> w.allow,
      contentType |-> "text/plain; charset=utf-8", body |-> msg \o "\n" ]

\* variant: no method is turned away
methodAllowedAny(method) == TRUE

methodAllowed(method) == method = "POST"

expectedAuthHeader == "Bearer " \o webhookToken
\* r.Header.Get: the empty string when the header is absent
headerGet(h) == IF h.present THEN h.value ELSE ""
\* variant: a request without the header is let through
authorizedOrAbsent(h) == ~h.present \/ h.value = "Bearer " \o webhookToken
authorized(h) == headerGet(h) = expectedAuthHeader

\* io.ReadAll(io.LimitReader(r.Body, maxPayloadBytes)): at most
\* maxPayloadBytes bytes, and no error when the body is longer
readBody(req) == [err |-> req.readErr, body |-> Take(req.body, maxPayloadBytes)]

\* decoder.Decode(&payload) into the empty map: an object fills it, null
\* makes it nil, anything else is an error that leaves it as it was
decodeInto(r) ==
    IF ~r.ok THEN [err |-> TRUE, payload |-> MapPayload(EmptyMap)]
    ELSE IF r.v.t = "obj" THEN [err |-> FALSE, payload |-> MapPayload(r.v.m)]
    ELSE IF r.v.t = "null" THEN [err |-> FALSE, payload |-> NilPayload]
    ELSE [err |-> TRUE, payload |-> MapPayload(EmptyMap)]

decodePayload(b) == decodeInto(ReadValue(b))

\* variant: a reply the provider marked ok=false is accepted all the same
responseAfterSendLenient(w, err) ==
    IF err.kind \notin {"nil", "api"}
    THEN [ status |-> 502, allow |-> w.allow,
           contentType |-> "text/plain; charset=utf-8",
           body |-> "failed to forward notification\n" ]
    ELSE [ status |-> 202, allow |-> w.allow,
           contentType |-> "application/json", body |-> "{\"ok\":true}" ]

\* the handler's response once sendMessage returned
responseAfterSend(w, err) ==
    IF err.kind # "nil"
    THEN httpError(w, "failed to forward notification", 502)
    ELSE [ status |-> 202, allow |-> w.allow,
           contentType |-> "application/json", body |-> "{\"ok\":true}" ]

Init ==
    /\ pc = [r \in Reqs |-> "idle"]
    /\ request = [r \in Reqs |-> NoRequest]
    /\ body = [r \in Reqs |-> <<>>]
    /\ payload = [r \in Reqs |-> MapPayload(EmptyMap)]
    /\ message = [r \in Reqs |-> <<>>]
    /\ sendCalls = [r \in Reqs |-> 0]
    /\ outbound = [r \in Reqs |-> <<>>]
    /\ elapsed = [r \in Reqs |-> 0]
    /\ dropped = [r \in Reqs |-> FALSE]
    /\ doResult = [r \in Reqs |-> NoResult]
    /\ sendErr = [r \in Reqs |-> NoError]
    /\ response = [r \in Reqs |-> NoResponse]
    /\ trace = [r \in Reqs |-> <<>>]

\* a request arrives and the server calls the handler
Receive(r) ==
    /\ pc[r] = "idle"
    /\ \E q \in Requests : request' = [request EXCEPT ![r] = q]
    /\ pc' = [pc EXCEPT ![r] = "method"]
    /\ UNCHANGED <<body, payload, message, sendCalls, outbound, elapsed,
                   dropped, doResult, sendErr, response, trace>>

CheckMethod(r) ==
    /\ pc[r] = "method"
    /\ IF ~methodAllowed(request[r].method)
       THEN /\ response' = [response EXCEPT ![r] =
                  httpError([@ EXCEPT !.allow = "POST"],
                            "method not allowed", 405)]
            /\ trace' = [trace EXCEPT ![r] = @ \o <<"method", "response">>]
            /\ pc' = [pc EXCEPT ![r] = "done"]
       ELSE /\ trace' = [trace EXCEPT ![r] = Append(@, "method")]
            /\ pc' = [pc EXCEPT ![r] = "auth"]
            /\ UNCHANGED response
    /\ UNCHANGED <<request, body, payload, message, sendCalls, outbound,
                   elapsed, dropped, doResult, sendErr>>

CheckAuth(r) ==
    /\ pc[r] = "auth"
    /\ IF ~authorized(request[r].auth)
       THEN /\ response' = [response EXCEPT ![r] =
                  httpError(@, "unauthorized", 401)]
            /\ trace' = [trace EXCEPT ![r] = @ \o <<"auth", "response">>]
            /\ pc' = [pc EXCEPT ![r] = "done"]
       ELSE /\ trace' = [trace EXCEPT ![r] = Append(@, "auth")]
            /\ pc' = [pc EXCEPT ![r] = "read"]
            /\ UNCHANGED response
    /\ UNCHANGED <<request, body, payload, message, sendCalls, outbound,
                   elapsed, dropped, doResult, sendErr>>

ReadBody(r) ==
    /\ pc[r] = "read"
    /\ LET got == readBody(request[r]) IN
       IF got.err
       THEN /\ response' = [response EXCEPT ![r] =
                  httpError(@, "failed to read body", 400)]
            /\ trace' = [trace EXCEPT ![r] = @ \o <<"read", "response">>]
            /\ pc' = [pc EXCEPT ![r] = "done"]
            /\ UNCHANGED body
       ELSE IF ByteLen(got.body) = 0
       THEN /\ response' = [response EXCEPT ![r] =
                  httpError(@, "empty body", 400)]
            /\ trace' = [trace EXCEPT ![r] = @ \o <<"read", "response">>]
            /\ pc' = [pc EXCEPT ![r] = "done"]
            /\ UNCHANGED body
       ELSE /\ body' = [body EXCEPT ![r] = got.body]
            /\ trace' = [trace EXCEPT ![r] = Append(@, "read")]
            /\ pc' = [pc EXCEPT ![r] = "decode"]
            /\ UNCHANGED response
    /\ UNCHANGED <<request, payload, message, sendCalls, outbound, elapsed,
                   dropped, doResult, sendErr>>

\* variant: a decode error ends the request
decodeNextStrict(err) == IF err THEN "done" ELSE "compose"

\* where the handler goes after decoding: a decode error is logged and
\* nothing else
decodeNext(err) == "compose"

DecodeJSON(r) ==
    /\ pc[r] = "decode"
    /\ payload' = [payload EXCEPT ![r] = decodePayload(body[r]).payload]
    /\ trace' = [trace EXCEPT ![r] = Append(@, "decode")]
    /\ pc' = [pc EXCEPT ![r] = decodeNext(decodePayload(body[r]).err)]
    /\ UNCHANGED <<request, body, message, sendCalls, outbound, elapsed,
                   dropped, doResult, sendErr, response>>

\* variant: the composed text is kept in one buffer all requests share
ComposeShared(r) ==
    /\ pc[r] = "compose"
    /\ message' = [q \in DOMAIN pc |-> buildTelegramMessage(payload[r], body[r])]
    /\ trace' = [trace EXCEPT ![r] = Append(@, "compose")]
    /\ pc' = [pc EXCEPT ![r] = "dispatch"]
    /\ UNCHANGED <<request, body, payload, sendCalls, outbound, elapsed,
                   dropped, doResult, sendErr, response>>

Compose(r) ==
    /\ pc[r] = "compose"
    /\ message' = [message EXCEPT ![r] = buildTelegramMessage(payload[r], body[r])]
    /\ trace' = [trace EXCEPT ![r] = Append(@, "compose")]
    /\ pc' = [pc EXCEPT ![r] = "dispatch"]
    /\ UNCHANGED <<request, body, payload, sendCalls, outbound, elapsed,
                   dropped, doResult, sendErr, response>>

\* variant: the call is made twice
doCallsTwice(text) ==
    <<[method |-> "POST", text |-> text], [method |-> "POST", text |-> text]>>

\* sendMessage issues one httpClient.Do call for the text
doCalls(text) == <<outboundRequest(text)>>

\* variant: the call has no deadline
deadlineNever(t) == FALSE

\* context.WithTimeout(r.Context(), client.requestTimeout) and the client's
\* Timeout: the call is given up once requestTimeout has passed
deadlineReached(t) == t >= requestTimeout

\* what sendMessage returns for the outcome of httpClient.Do
sendResult(res) ==
    IF res.kind = "error" THEN ErrRequest(res.cause)
    ELSE interpretResponse(res.reply)

\* the handler creates the context and calls sendMessage, which rejects an
\* empty text, and whose Do call returns at once, nothing sent, when the
\* context is cancelled already
Dispatch(r) ==
    /\ pc[r] = "dispatch"
    /\ sendCalls' = [sendCalls EXCEPT ![r] = @ + 1]
    /\ trace' = [trace EXCEPT ![r] = Append(@, "dispatch")]
    /\ elapsed' = [elapsed EXCEPT ![r] = 0]
    /\ IF messageIsEmpty(message[r])
       THEN /\ sendErr' = [sendErr EXCEPT ![r] = ErrEmptyMessage]
            /\ pc' = [pc EXCEPT ![r] = "respond"]
            /\ UNCHANGED <<outbound, doResult>>
       ELSE IF dropped[r]
       THEN /\ doResult' = [doResult EXCEPT ![r] = DoError("canceled")]
            /\ sendErr' = [sendErr EXCEPT ![r] = sendResult(DoError("canceled"))]
            /\ pc' = [pc EXCEPT ![r] = "respond"]
            /\ UNCHANGED outbound
       ELSE /\ outbound' = [outbound EXCEPT ![r] = @ \o doCalls(message[r])]
            /\ pc' = [pc EXCEPT ![r] = "inflight"]
            /\ UNCHANGED <<doResult, sendErr>>
    /\ UNCHANGED <<request, body, payload, message, dropped, response>>

\* Do returns with res and sendMessage with it
DoReturns(r, res) ==
    /\ doResult' = [doResult EXCEPT ![r] = res]
    /\ sendErr' = [sendErr EXCEPT ![r] = sendResult(res)]
    /\ pc' = [pc EXCEPT ![r] = "respond"]
    /\ UNCHANGED <<request, body, payload, message, sendCalls, outbound,
                   elapsed, dropped, response, trace>>

\* the provider answers before the deadline
ProviderReply(r) ==
    /\ pc[r] = "inflight"
    /\ ~deadlineReached(elapsed[r])
    /\ \E reply \in ProviderReplies : DoReturns(r, DoResponse(reply))

\* connection refused, DNS or TLS failure
TransportError(r) ==
    /\ pc[r] = "inflight"
    /\ ~deadlineReached(elapsed[r])
    /\ DoReturns(r, DoError("transport"))

\* a second passes while the call is in flight; the clock is not followed
\* past the deadline
Tick(r) ==
    /\ pc[r] = "inflight"
    /\ elapsed[r] < requestTimeout
    /\ elapsed' = [elapsed EXCEPT ![r] = @ + 1]
    /\ UNCHANGED <<pc, request, body, payload, message, sendCalls, outbound,
                   dropped, doResult, sendErr, response, trace>>

DeadlineExceeded(r) ==
    /\ pc[r] = "inflight"
    /\ deadlineReached(elapsed[r])
    /\ DoReturns(r, DoError("timeout"))

\* the inbound connection is dropped: r.Context() is cancelled, and with it
\* the context derived from it
InboundDrop(r) ==
    /\ pc[r] \in {"dispatch", "inflight"}
    /\ ~dropped[r]
    /\ dropped' = [dropped EXCEPT ![r] = TRUE]
    /\ UNCHANGED <<pc, request, body, payload, message, sendCalls, outbound,
                   elapsed, doResult, sendErr, response, trace>>

\* variant: the outbound context is not derived from the request's, so the
\* call never ends by the inbound cancellation
DoCancelledDetached(r) == FALSE /\ UNCHANGED vars

\* the call in flight ends with the cancelled context
DoCancelled(r) ==
    /\ pc[r] = "inflight"
    /\ dropped[r]
    /\ DoReturns(r, DoError("canceled"))

Respond(r) ==
    /\ pc[r] = "respond"
    /\ response' = [response EXCEPT ![r] = responseAfterSend(@, sendErr[r])]
    /\ trace' = [trace EXCEPT ![r] = Append(@, "response")]
    /\ pc' = [pc EXCEPT ![r] = "done"]
    /\ UNCHANGED <<request, body, payload, message, sendCalls, outbound,
                   elapsed, dropped, doResult, sendErr>>

Next ==
    \/ \E r \in DOMAIN pc : Receive(r)
    \/ \E r \in DOMAIN pc : CheckMethod(r)
    \/ \E r \in DOMAIN pc : CheckAuth(r)
    \/ \E r \in DOMAIN pc : ReadBody(r)
    \/ \E r \in DOMAIN pc : DecodeJSON(r)
    \/ \E r \in DOMAIN pc : Compose(r)
    \/ \E r \in DOMAIN pc : Dispatch(r)
    \/ \E r \in DOMAIN pc : ProviderReply(r)
    \/ \E r \in DOMAIN pc : TransportError(r)
    \/ \E r \in DOMAIN pc : Tick(r)
    \/ \E r \in DOMAIN pc : DeadlineExceeded(r)
    \/ \E r \in DOMAIN pc : InboundDrop(r)
    \/ \E r \in DOMAIN pc : DoCancelled(r)
    \/ \E r \in DOMAIN pc : Respond(r)

Spec == Init /\ [][Next]_vars

\* time passes, the deadline's timer fires, and the handler's goroutine runs
Fairness ==
    \A r \in Reqs :
        /\ WF_vars(Tick(r))
        /\ WF_vars(DeadlineExceeded(r))
        /\ WF_vars(Respond(r))

LiveSpec == Init /\ [][Next]_vars /\ Fairness

(* ------------------------------------------------------------------------*)
(* The decode, compose and dispatch stages over a wider pool of payloads,  *)
(* and sendMessage over texts given to it directly                         *)
(* ------------------------------------------------------------------------*)

\* a member of an object's text, or none when v is the empty text
OptMember(k, v) == IF v = <<>> THEN <<>> ELSE <<Member(k, v)>>

\* JSON texts of every type for the values extracted; <<>> leaves the key out
StatusTexts ==
    { <<>>, Quoted(vUp), Quoted(Str(<<" ","D","o","w","n"," ">>)),
      Str(<<"1">>), Str(<<"t","r","u","e">>), Str(<<"n","u","l","l">>),
      Str(<<"[","1","]">>), Object(<<>>) }
PingTexts ==
    { <<>>, Str(<<"1","2">>), Str(<<"1","2",".","0">>),
      Str(<<"1",".","2","e","1">>), Str(<<"1","2",".","5">>),
      Quoted(Str(<<"7">>)), Str(<<"f","a","l","s","e">>),
      Object(<<Member(Str(<<"a">>), Str(<<"1">>))>>) }
MonitorTexts ==
    { <<>>, Quoted(vDemo), Str(<<"n","u","l","l">>), Str(<<"[","]">>),
      Object(<<>>),
      Object(<<Member(kName, Quoted(vDemo))>>),
      Object(<<Member(kName, Str(<<"t","r","u","e">>))>>),
      Object(<<Member(kName, Object(<<Member(kName, Quoted(vDemo))>>))>>),
      Object(<<Member(kName, Str(<<"3">>)), Member(kUrl, Str(<<"[","]">>))>>) }
MsgTexts == { <<>>, Quoted(Str(<<"T","e","s","t","i","n","g">>)) }

\* the body holding the given texts for status, ping, monitor and msg, and
\* null when all four are left out
FieldBody(st, pg, mo, ms) ==
    IF st = <<>> /\ pg = <<>> /\ mo = <<>> /\ ms = <<>>
    THEN BodyNull
    ELSE Object(OptMember(kStatus, st) \o OptMember(kPing, pg)
                  \o OptMember(kMonitor, mo) \o OptMember(kMsg, ms))
FieldBodies ==
    { FieldBody(st, pg, mo, ms) :
        st \in StatusTexts, pg \in PingTexts, mo \in MonitorTexts,
        ms \in MsgTexts }

\* texts handed to sendMessage
Texts ==
    { <<>>, Rep(" ", 1), Rep(" ", 5), Str(<<" ","\n","\t","\r">>),
      Str(<<"h","i">>), Str(<<" ","h","i"," ">>) }

\* an authenticated POST whose body b was read
ReadRequest(b) ==
    [ method |-> "POST", auth |-> Header(expectedAuthHeader), body |-> b,
      readErr |-> FALSE ]

\* the handler after the body read, and sendMessage about to be called
StageInit ==
    /\ \/ \E b \in FieldBodies :
             /\ request = [r \in Reqs |-> ReadRequest(b)]
             /\ body = [r \in Reqs |-> b]
             /\ message = [r \in Reqs |-> <<>>]
             /\ pc = [r \in Reqs |-> "decode"]
             /\ trace = [r \in Reqs |-> <<"method", "auth", "read">>]
       \/ \E t \in Texts :
             /\ request = [r \in Reqs |-> ReadRequest(t)]
             /\ body = [r \in Reqs |-> t]
             /\ message = [r \in Reqs |-> t]
             /\ pc = [r \in Reqs |-> "dispatch"]
             /\ trace = [r \in Reqs |->
                           <<"method", "auth", "read", "decode", "compose">>]
    /\ payload = [r \in Reqs |-> MapPayload(EmptyMap)]
    /\ sendCalls = [r \in Reqs |-> 0]
    /\ outbound = [r \in Reqs |-> <<>>]
    /\ elapsed = [r \in Reqs |-> 0]
    /\ dropped = [r \in Reqs |-> FALSE]
    /\ doResult = [r \in Reqs |-> NoResult]
    /\ sendErr = [r \in Reqs |-> NoError]
    /\ response = [r \in Reqs |-> NoResponse]

StageNext ==
    \/ \E r \in DOMAIN pc : DecodeJSON(r)
    \/ \E r \in DOMAIN pc : Compose(r)
    \/ \E r \in DOMAIN pc : Dispatch(r)
    \/ \E r \in DOMAIN pc : ProviderReply(r)
    \/ \E r \in DOMAIN pc : TransportError(r)
    \/ \E r \in DOMAIN pc : Respond(r)

StageSpec == StageInit /\ [][StageNext]_vars

(* ------------------------------------------------------------------------*)
(* Two requests handled concurrently (net/http runs each handler call in   *)
(* its own goroutine), over a smaller pool of requests and replies         *)
(* ------------------------------------------------------------------------*)

PairReqs == {"r1", "r2"}

PairInit ==
    /\ pc = [r \in PairReqs |-> "idle"]
    /\ request = [r \in PairReqs |-> NoRequest]
    /\ body = [r \in PairReqs |-> <<>>]
    /\ payload = [r \in PairReqs |-> MapPayload(EmptyMap)]
    /\ message = [r \in PairReqs |-> <<>>]
    /\ sendCalls = [r \in PairReqs |-> 0]
    /\ outbound = [r \in PairReqs |-> <<>>]
    /\ elapsed = [r \in PairReqs |-> 0]
    /\ dropped = [r \in PairReqs |-> FALSE]
    /\ doResult = [r \in PairReqs |-> NoResult]
    /\ sendErr = [r \in PairReqs |-> NoError]
    /\ response = [r \in PairReqs |-> NoResponse]
    /\ trace = [r \in PairReqs |-> <<>>]

PairReceive(r) ==
    /\ pc[r] = "idle"
    /\ \E q \in { [method |-> "GET", auth |-> NoHeader, body |-> <<>>, readErr |-> FALSE],
                  [method |-> "POST", auth |-> Header("Bearer bad"), body |-> BodyDemo, readErr |-> FALSE],
                  ReadRequest(BodyDemo),
                  ReadRequest(BodyNotJSON) } :
          request' = [request EXCEPT ![r] = q]
    /\ pc' = [pc EXCEPT ![r] = "method"]
    /\ UNCHANGED <<body, payload, message, sendCalls, outbound, elapsed,
                   dropped, doResult, sendErr, response, trace>>

PairProviderReply(r) ==
    /\ pc[r] = "inflight"
    /\ ~deadlineReached(elapsed[r])
    /\ \E reply \in { [status |-> 200, body |-> ReplyOK],
                      [status |-> 500, body |-> ReplyLong] } :
          DoReturns(r, DoResponse(reply))

PairNext ==
    \/ \E r \in DOMAIN pc : PairReceive(r)
    \/ \E r \in DOMAIN pc : CheckMethod(r)
    \/ \E r \in DOMAIN pc : CheckAuth(r)
    \/ \E r \in DOMAIN pc : ReadBody(r)
    \/ \E r \in DOMAIN pc : DecodeJSON(r)
    \/ \E r \in DOMAIN pc : Compose(r)
    \/ \E r \in DOMAIN pc : Dispatch(r)
    \/ \E r \in DOMAIN pc : PairProviderReply(r)
    \/ \E r \in DOMAIN pc : TransportError(r)
    \/ \E r \in DOMAIN pc : Tick(r)
    \/ \E r \in DOMAIN pc : DeadlineExceeded(r)
    \/ \E r \in DOMAIN pc : InboundDrop(r)
    \/ \E r \in DOMAIN pc : DoCancelled(r)
    \/ \E r \in DOMAIN pc : Respond(r)

PairSpec == PairInit /\ [][PairNext]_vars

(* ------------------------------------------------------------------------*)
(* Properties                                                              *)
(* ------------------------------------------------------------------------*)

Handled(r) == pc[r] = "done"
\* sendMessage was called for r and has returned
SendReturned(r) == sendCalls[r] > 0 /\ pc[r] \in {"respond", "done"}
Authenticated(r) ==
    /\ request[r].method = "POST"
    /\ request[r].auth = Header("Bearer " \o webhookToken)

\* C1: the response is 202 with body {"ok":true} exactly when sendMessage
\* returned success for the request, and 502 whenever it returned a failure
C1_AcceptedIffSent ==
    \A r \in DOMAIN pc :
        /\ response[r].status = 202
             <=> (Handled(r) /\ SendReturned(r) /\ sendErr[r].kind = "nil")
        /\ response[r].status = 202 => response[r].body = "{\"ok\":true}"
        /\ (Handled(r) /\ SendReturned(r) /\ sendErr[r].kind # "nil")
             => response[r].status = 502

\* the provider answered 500 and the request was answered 502
C1_Witness ==
    \E r \in DOMAIN pc :
        /\ Handled(r)
        /\ doResult[r].kind = "response"
        /\ doResult[r].reply.status = 500
        /\ response[r].status = 502

\* C2: a POST whose Authorization header is absent or is not exactly
\* "Bearer " + token is answered 401; its body is never read, nothing is
\* composed and no outbound call is made
C2_Unauthorized ==
    \A r \in DOMAIN pc :
        (pc[r] # "idle" /\ request[r].method = "POST" /\ ~Authenticated(r))
            => /\ body[r] = <<>>
               /\ message[r] = <<>>
               /\ sendCalls[r] = 0
               /\ outbound[r] = <<>>
               /\ Handled(r) => response[r].status = 401

\* a POST whose token differs only in the case of "Bearer" was answered 401
C2_Witness ==
    \E r \in DOMAIN pc :
        /\ Handled(r)
        /\ request[r].method = "POST"
        /\ request[r].auth = Header("bearer tkn")
        /\ response[r].status = 401

StageOrder ==
    <<"method", "auth", "read", "decode", "compose", "dispatch", "response">>

\* C3: the stages run in the fixed order, none twice and none after the
\* response; a stage is followed by the next one or by the response; a
\* non-POST request is answered 405 with Allow: POST at the method check,
\* whatever its header and body; a rejection is followed by no later stage
C3_StageOrder ==
    \A r \in DOMAIN pc :
        /\ \A i \in DOMAIN trace[r] : trace[r][i] = StageOrder[i] \/
              (trace[r][i] = "response" /\ i = Len(trace[r]))
        /\ (trace[r] # <<>> /\ trace[r][Len(trace[r])] = "response")
              <=> Handled(r)
        /\ (Handled(r) /\ request[r].method # "POST")
              => /\ response[r].status = 405
                 /\ response[r].allow = "POST"
                 /\ trace[r] = <<"method", "response">>
        /\ (Handled(r) /\ response[r].status \in {405, 401, 400})
              => /\ Len(trace[r]) <= 4
                 /\ sendCalls[r] = 0
                 /\ outbound[r] = <<>>
        /\ outbound[r] # <<>> => SubSeq(trace[r], 1, 6) = SubSeq(StageOrder, 1, 6)

\* a GET carrying a wrong token was answered 405
C3_Witness ==
    \E r \in DOMAIN pc :
        /\ Handled(r)
        /\ request[r].method = "GET"
        /\ request[r].auth = Header("Bearer bad")
        /\ response[r].status = 405

\* C4: an authenticated POST whose body is longer than maxPayloadBytes is
\* answered 400 and makes no outbound call
C4_OversizeRejected ==
    \A r \in DOMAIN pc :
        (Handled(r) /\ Authenticated(r)
           /\ ByteLen(request[r].body) > maxPayloadBytes)
            => /\ response[r].status = 400
               /\ outbound[r] = <<>>

\* C5: an authenticated POST whose body is empty after trimming white space
\* is answered 400 at the body read, before anything is composed or
\* dispatched
C5_BlankRejected ==
    \A r \in DOMAIN pc :
        (Handled(r) /\ Authenticated(r) /\ TrimSpace(request[r].body) = <<>>)
            => /\ response[r].status = 400
               /\ trace[r] = <<"method", "auth", "read", "response">>
               /\ sendCalls[r] = 0

\* the stage has run for r
Ran(r, stage) == \E i \in DOMAIN trace[r] : trace[r][i] = stage
\* r was handled to its end and the bytes read for it did not decode as a
\* JSON object
DecodeFailedDone(r) ==
    Ran(r, "decode") /\ Handled(r) /\ decodePayload(body[r]).err

\* C6: when the body read does not decode as a JSON object the request goes
\* on: the payload is the empty object, the message is composed from it and
\* the bytes read (the request's own bytes when within the cap), sendMessage
\* is invoked exactly once, and the response is 202 or 502 as it returned
C6_DecodeFailureTolerated ==
    \A r \in DOMAIN pc :
        /\ (Ran(r, "decode") /\ decodePayload(body[r]).err)
             => /\ payload[r] = MapPayload(EmptyMap)
                /\ pc[r] # "done" \/ Ran(r, "dispatch")
                /\ ByteLen(request[r].body) <= maxPayloadBytes
                     => body[r] = request[r].body
        /\ (Ran(r, "compose") /\ decodePayload(body[r]).err)
             => message[r] = buildTelegramMessage(MapPayload(EmptyMap), body[r])
        /\ DecodeFailedDone(r)
             => /\ sendCalls[r] = 1
                /\ Len(outbound[r]) <= 1
                /\ response[r].status \in {202, 502}
                /\ response[r].status = 202 <=> sendErr[r].kind = "nil"

\* a body that is no JSON was forwarded as raw text and answered 202
C6_Witness ==
    \E r \in DOMAIN pc :
        /\ Handled(r)
        /\ body[r] = BodyNotJSON
        /\ message[r] = BodyNotJSON
        /\ Len(outbound[r]) = 1
        /\ response[r].status = 202

\* C7: at most one outbound call is made for a request: sendMessage is
\* invoked at most once and makes at most one call, so no call follows a
\* failure
C7_AtMostOneCall ==
    \A r \in DOMAIN pc :
        /\ sendCalls[r] <= 1
        /\ Len(outbound[r]) <= sendCalls[r]
        /\ sendErr[r].kind # "nil" => pc[r] \in {"respond", "done"}

\* a transport error was answered 502 after the one call
C7_Witness ==
    \E r \in DOMAIN pc :
        /\ Handled(r)
        /\ doResult[r] = DoError("transport")
        /\ Len(outbound[r]) = 1
        /\ response[r].status = 502

\* C8: a request whose outbound call is in flight is eventually answered,
\* 202 or 502; once the deadline has passed the call's outcome is an error
\* (the timeout, or the cancellation of a dropped request) and the answer
\* is 502
C8_DispatchedEventuallyAnswered ==
    /\ \A r \in Reqs :
         (pc[r] = "inflight")
            ~> (Handled(r) /\ response[r].status \in {202, 502})
    /\ [](\A r \in Reqs :
            /\ (pc[r] \in {"respond", "done"} /\ elapsed[r] >= requestTimeout
                  /\ Len(outbound[r]) > 0)
                 => /\ doResult[r].kind = "error"
                    /\ doResult[r].cause \in {"timeout", "canceled"}
            /\ (Handled(r) /\ doResult[r] = DoError("timeout"))
                 => response[r].status = 502)

\* the provider stayed silent until the deadline and the answer was 502
C8_Witness ==
    \E r \in DOMAIN pc :
        /\ Handled(r)
        /\ elapsed[r] = requestTimeout
        /\ doResult[r] = DoError("timeout")
        /\ response[r].status = 502

\* does the byte string s hold p as a substring (both canonical)
Contains(s, p) ==
    \/ p = <<>>
    \/ /\ Len(p) = 1
       /\ \E i \in DOMAIN s : s[i][1] = p[1][1] /\ s[i][2] >= p[1][2]
    \/ /\ Len(p) > 1
       /\ \E i \in 1..(Len(s) - Len(p) + 1) :
            /\ s[i][1] = p[1][1]
            /\ s[i][2] >= p[1][2]
            /\ \A j \in 2..(Len(p) - 1) : s[i + j - 1] = p[j]
            /\ s[i + Len(p) - 1][1] = p[Len(p)][1]
            /\ s[i + Len(p) - 1][2] >= p[Len(p)][2]

\* the markers of the status categories, as their UTF-8 bytes: U+2705,
\* U+274C, U+1F527, U+23F3, and U+2139 U+FE0F for the neutral one
MarkerUp == Str(<<"xE2", "x9C", "x85">>)
MarkerDown == Str(<<"xE2", "x9D", "x8C">>)
MarkerMaintenance == Str(<<"xF0", "x9F", "x94", "xA7">>)
MarkerPending == Str(<<"xE2", "x8F", "xB3">>)
MarkerDefault == Str(<<"xE2", "x84", "xB9", "xEF", "xB8", "x8F">>)

\* the marker designated for a status value, letter case ignored
categoryMarker(status) ==
    IF ToUpper(status) = Str(<<"U","P">>) THEN MarkerUp
    ELSE IF ToUpper(status) = Str(<<"D","O","W","N">>) THEN MarkerDown
    ELSE IF ToUpper(status) = Str(<<"M","A","I","N","T","E","N","A","N","C","E">>)
         THEN MarkerMaintenance
    ELSE IF ToUpper(status) = Str(<<"P","E","N","D","I","N","G">>)
         THEN MarkerPending
    ELSE MarkerDefault

\* the payload of r decoded as a JSON object and the message was composed
ComposedFromObject(r) ==
    /\ Ran(r, "compose")
    /\ ~decodePayload(body[r]).err
    /\ ~payload[r].nil

\* C9: the text composed from a well-formed payload carries the marker of
\* the category of its status (up, down, maintenance, pending), and the
\* neutral marker when the status is unknown or absent; stated for the
\* marker standing anywhere in the text, which its leading the text implies
C9_CategoryMarker ==
    \A r \in DOMAIN pc :
        ComposedFromObject(r)
            => Contains(message[r],
                        categoryMarker(stringFromMap(payload[r], kStatus)))

\* the bytes Telegram's MarkdownV2 wants escaped (x60 names the grave accent)
EscapeSet ==
    { "_", "*", "[", "]", "(", ")", "~", "x60", ">", "#", "+", "-", "=", "|",
      "{", "}", ".", "!" }

\* n copies of c, each behind a backslash
EscapedRun(c, n) == [i \in 1..(2 * n) |-> <<IF i % 2 = 1 THEN "\\" ELSE c, 1>>]

RECURSIVE Escaped(_)
\* the value with every byte of the escape set behind a backslash
Escaped(v) ==
    IF v = <<>> THEN <<>>
    ELSE IF v[1][1] \in EscapeSet
         THEN Cat(EscapedRun(v[1][1], v[1][2]), Escaped(Tail(v)))
    ELSE Cat(<<v[1]>>, Escaped(Tail(v)))

HasEscapeSetByte(v) == \E i \in DOMAIN v : v[i][1] \in EscapeSet

\* C10: every extracted field value holding a byte of the escape set stands
\* in the composed text with each such byte behind a backslash: the text
\* holds the escaped value
C10_FieldValuesEscaped ==
    \A r \in DOMAIN pc :
        ComposedFromObject(r)
            => \A i \in DOMAIN fieldLines(payload[r]) :
                 HasEscapeSetByte(fieldLines(payload[r])[i].value)
                    => Contains(message[r],
                                Escaped(fieldLines(payload[r])[i].value))

\* the raw-payload excerpt: the trimmed raw body, whole when at most 3900
\* bytes long, else its first 3900 bytes and "..."
RawExcerpt(raw) ==
    IF ByteLen(TrimSpace(raw)) <= 3900 THEN TrimSpace(raw)
    ELSE Cat(Take(TrimSpace(raw), 3900), Str(<<".", ".", ".">>))

FieldLabels == {LblMonitor, LblStatus, LblReason, LblURL, LblTime, LblPing}
NoFieldExtracted(r) == Ran(r, "compose") /\ fieldLines(payload[r]) = <<>>
FieldsExtracted(r) == Ran(r, "compose") /\ fieldLines(payload[r]) # <<>>

\* C11: when no field is extractable the composed text is the raw excerpt
\* wrapped in the empty-payload template: it holds the excerpt with the
\* template around it, and begins with no field line
C11_RawFallbackInTemplate ==
    \A r \in DOMAIN pc :
        NoFieldExtracted(r)
            => /\ Contains(message[r], RawExcerpt(body[r]))
               /\ message[r] # RawExcerpt(body[r])
               /\ \A l \in FieldLabels : ~HasPrefix(message[r], l)

C13_OutboundRequestShape ==
    \A r \in DOMAIN pc :
        \A i \in DOMAIN outbound[r] :
            /\ outbound[r][i].method = "POST"
            /\ outbound[r][i].url =
                 telegramBaseURL \o "/bot" \o telegramBotToken \o "/sendMessage"
            /\ DOMAIN outbound[r][i].body =
                 {"chat_id", "text", "parse_mode", "disable_web_page_preview"}
            /\ outbound[r][i].body.chat_id = telegramChatID
            /\ outbound[r][i].body.text = message[r]
            /\ outbound[r][i].body.disable_web_page_preview = TRUE

\* the msg field holds "test" in any letter case
IsTestNotification(p) ==
    Contains(ToUpper(stringFromMap(p, kMsg)), Str(<<"T", "E", "S", "T">>))
\* the marker of the test header, U+1F9EA, as its UTF-8 bytes
MarkerTest == Str(<<"xF0", "x9F", "xA7", "xAA">>)

\* C14: the composed text carries the test header exactly when the msg
\* field holds "test" in any letter case
C14_TestHeader ==
    \A r \in DOMAIN pc :
        ComposedFromObject(r)
            => (IsTestNotification(payload[r])
                  <=> Contains(message[r], MarkerTest))

\* every byte of the text is white space (none, when the text is empty)
OnlyWhitespace(text) == \A i \in DOMAIN text : text[i][1] \in Whitespace

\* C15: sendMessage given a text that is empty or all white space returns
\* its local error and makes no call: the request ends 502 with no outbound
\* call recorded
C15_EmptyTextNotSent ==
    \A r \in DOMAIN pc :
        (Ran(r, "dispatch") /\ OnlyWhitespace(message[r]))
            => /\ outbound[r] = <<>>
               /\ doResult[r] = NoResult
               /\ sendErr[r] = [kind |-> "empty"]
               /\ pc[r] \in {"respond", "done"}
               /\ Handled(r) => response[r].status = 502

\* a text of five spaces was turned down without a call
C15_Witness ==
    \E r \in DOMAIN pc :
        /\ Handled(r)
        /\ message[r] = Rep(" ", 5)
        /\ sendCalls[r] = 1
        /\ outbound[r] = <<>>
        /\ response[r].status = 502

\* what the claim says sendMessage returns for a reply, given how the
\* reply's body decoded
ReplyOutcome(reply, d, err) ==
    /\ err.kind = "nil" <=> (reply.status < 300 /\ ~d.err /\ d.ok)
    /\ reply.status >= 300
         => /\ err.kind = "status"
            /\ err.status = reply.status
            /\ ByteLen(err.excerpt) <= 512
            /\ Contains(reply.body, err.excerpt)
    /\ (reply.status < 300 /\ d.err) => err.kind = "decode"
    /\ (reply.status < 300 /\ ~d.err /\ ~d.ok)
         => /\ err.kind = "api"
            /\ err.description # <<>>
            /\ d.description # <<>> => err.description = d.description
            /\ d.description = <<>>
                 => err.description = Str(<<"u","n","k","n","o","w","n"," ","e","r","r","o","r">>)

\* C16: sendMessage returns success exactly when Do returned a response of
\* status below 300 whose body decodes with ok = true; a status >= 300 fails
\* with the status and at most 512 bytes of the body; ok false or missing
\* fails with the description, or "unknown error"; an undecodable body and
\* a transport error fail
C16_ReplyInterpretation ==
    \A r \in DOMAIN pc :
        /\ doResult[r].kind = "response"
             => /\ ReplyOutcome(doResult[r].reply,
                                decodeResponse(doResult[r].reply.body),
                                sendErr[r])
                /\ (doResult[r].reply.status = 200
                      /\ doResult[r].reply.body \in {ReplyHTML, <<>>})
                     => sendErr[r].kind = "decode"
                /\ (doResult[r].reply.status = 200
                      /\ doResult[r].reply.body \in {ReplyNotOKBare, Object(<<>>)})
                     => sendErr[r].kind = "api"
                /\ doResult[r].reply.body = ReplyOK
                     => (sendErr[r].kind = "nil" <=> doResult[r].reply.status < 300)
        /\ doResult[r].kind = "error" => sendErr[r].kind = "request"

\* a 200 reply {"ok":false} without description failed as "unknown error"
C16_Witness ==
    \E r \in DOMAIN pc :
        /\ Handled(r)
        /\ doResult[r] = DoResponse([status |-> 200, body |-> ReplyNotOKBare])
        /\ sendErr[r].kind = "api"
        /\ sendErr[r].description = UnknownError
        /\ response[r].status = 502

\* C17: when the inbound connection is dropped while the outbound call is
\* in flight the call can end at once with the cancellation, whatever time
\* is left before the deadline; a cancelled call is a failure of
\* sendMessage, answered 502, and no further call is made
C17_CancellationCascades ==
    \A r \in DOMAIN pc :
        /\ (pc[r] = "inflight" /\ dropped[r]) => ENABLED DoCancelled(r)
        /\ doResult[r] = DoError("canceled")
             => /\ dropped[r]
                /\ sendErr[r] = [kind |-> "request", cause |-> "canceled"]
                /\ sendCalls[r] = 1
                /\ Len(outbound[r]) <= 1
                /\ pc[r] \in {"respond", "done"}
                /\ Handled(r) => response[r].status = 502

\* a call in flight was cancelled three seconds into the ten of the timeout
C17_Witness ==
    \E r \in DOMAIN pc :
        /\ Handled(r)
        /\ doResult[r] = DoError("canceled")
        /\ Len(outbound[r]) = 1
        /\ elapsed[r] = 3
        /\ response[r].status = 502

\* everything the handler holds for request r
Slot(r) ==
    << pc[r], request[r], body[r], payload[r], message[r], sendCalls[r],
       outbound[r], elapsed[r], dropped[r], doResult[r], sendErr[r],
       response[r], trace[r] >>

\* a step of the handler of r at a point where it could be kept waiting:
\* before its checks, before and during its outbound call, and before its
\* response (the body read, the decoding and the composing are computations
\* of its own in between)
OwnStep(r) ==
    \/ PairReceive(r) \/ CheckMethod(r) \/ CheckAuth(r) \/ Dispatch(r)
    \/ Tick(r) \/ DeadlineExceeded(r) \/ Respond(r)

\* what r holds follows from its own request and the outcome of its own call
OwnOutcome(r) ==
    /\ body[r] = IF Ran(r, "read") THEN request[r].body ELSE <<>>
    /\ message[r] =
         IF Ran(r, "compose")
         THEN buildTelegramMessage(decodePayload(request[r].body).payload,
                                   request[r].body)
         ELSE <<>>
    /\ \A i \in DOMAIN outbound[r] : outbound[r][i].body.text = message[r]
    /\ pc[r] \in {"idle", "method", "auth", "read", "decode", "compose", "dispatch"}
         => /\ doResult[r] = NoResult
            /\ sendErr[r] = NoError
            /\ response[r] = NoResponse
    /\ Handled(r)
         => response[r].status =
              IF request[r].method # "POST" THEN 405
              ELSE IF ~Authenticated(r) THEN 401
              ELSE IF doResult[r].kind = "response"
                      /\ doResult[r].reply.status = 200 THEN 202
              ELSE 502

\* C18: of two requests handled concurrently, under every interleaving, each
\* step touches the state of one request only, what a request holds and is
\* answered follows from its own request and the outcome of its own call,
\* and a request waiting before its checks, before or during its outbound
\* call or before its response can take its next step, whatever the other
\* one does
C18_RequestsIndependent ==
    /\ [](\A r \in PairReqs :
            /\ OwnOutcome(r)
            /\ pc[r] \in {"idle", "method", "auth", "dispatch", "inflight", "respond"}
                 => ENABLED OwnStep(r))
    /\ [][\E r \in PairReqs : \A q \in PairReqs \ {r} : Slot(q)' = Slot(q)]_vars

\* one request was answered 202 while the other, whose call is at its
\* deadline, is still in flight
C18_Witness ==
    \E r \in DOMAIN pc : \E q \in DOMAIN pc :
        /\ r # q
        /\ Handled(r)
        /\ response[r].status = 202
        /\ pc[q] = "inflight"
        /\ elapsed[q] = requestTimeout
        /\ request[q] = request[r]

\* the text the claim gives the value under key k of the map m: a string
\* trimmed, a number as written, and the empty text when the key is absent
\* or the value is of any other type
ExpectedText(m, k) ==
    IF k \notin DOMAIN m THEN <<>>
    ELSE IF m[k].t = "str" THEN TrimSpace(m[k].s)
    ELSE IF m[k].t = "num" THEN m[k].lit
    ELSE <<>>
\* the same at the path monitor.name, empty when monitor is no object
ExpectedName(m) ==
    IF kMonitor \notin DOMAIN m THEN <<>>
    ELSE IF m[kMonitor].t # "obj" THEN <<>>
    ELSE ExpectedText(m[kMonitor].m, kName)

\* the text has the line of the label with the value, or no line of the
\* label when the value is empty
LineIn(text, label, value) ==
    IF value = <<>>
    THEN ~HasPrefix(text, label) /\ ~Contains(text, Cat(Str(<<"\n">>), label))
    ELSE Contains(text, Join(<<label, value, Str(<<"\n">>)>>))

\* C19: every extraction yields the empty text when its key is absent, its
\* value is a bool, null, array or object, or its path is broken by a
\* non-object (a nil payload included), and the value's text otherwise; the
\* composed text holds each field's line by that field's value alone, and
\* the request is carried through to its response
C19_ExtractionTotal ==
    \A r \in DOMAIN pc :
        /\ \A k \in {kStatus, kPing, kMsg, kTime, kIncidentReason} :
             stringFromMap(payload[r], k) = ExpectedText(payload[r].m, k)
        /\ nestedString(payload[r], <<kMonitor, kName>>) = ExpectedName(payload[r].m)
        /\ payload[r].nil => payload[r].m = EmptyMap
        /\ Ran(r, "compose")
             => /\ LineIn(message[r], LblStatus, ToUpper(ExpectedText(payload[r].m, kStatus)))
                /\ LineIn(message[r], LblPing, ExpectedText(payload[r].m, kPing))
                /\ LineIn(message[r], LblReason, ExpectedText(payload[r].m, kMsg))
                /\ LineIn(message[r], LblMonitor, ExpectedName(payload[r].m))
        /\ Handled(r) => response[r].status \in {202, 502}

\* status is an array and monitor a string: the text opens with the ping line
C19_Witness ==
    \E r \in DOMAIN pc :
        /\ Handled(r)
        /\ kStatus \in DOMAIN payload[r].m
        /\ payload[r].m[kStatus].t = "arr"
        /\ kMonitor \in DOMAIN payload[r].m
        /\ payload[r].m[kMonitor].t = "str"
        /\ HasPrefix(message[r], Str(<<"P","i","n","g",":"," ","1","2","\n">>))

\* number literals whose value is whole
WholeLiterals ==
    { Str(<<"1">>), Str(<<"3">>), Str(<<"7">>), Str(<<"1","2">>),
      Str(<<"1","2",".","0">>), Str(<<"1",".","2","e","1">>) }
\* no decimal point and no exponent
NoArtifact(v) == \A i \in DOMAIN v : v[i][1] \notin {".", "e", "E"}
\* the payload of r holds a number under ping
PingIsNumber(r) ==
    /\ Ran(r, "compose")
    /\ kPing \in DOMAIN payload[r].m
    /\ payload[r].m[kPing].t = "num"

\* C20 as stated: a ping whose value is whole, however it is written, is
\* rendered in the composed text without decimal point and exponent
C20_WholeNumbersPlain ==
    \A r \in DOMAIN pc :
        (PingIsNumber(r) /\ payload[r].m[kPing].lit \in WholeLiterals)
            => /\ NoArtifact(stringFromMap(payload[r], kPing))
               /\ LineIn(message[r], LblPing, stringFromMap(payload[r], kPing))

\* C20 as amended: a number is rendered with exactly the text of its literal
\* in the body, so the rendering adds no decimal point and no exponent, and
\* keeps those the literal has
C20_NumbersAsWritten ==
    \A r \in DOMAIN pc :
        PingIsNumber(r)
            => /\ \E d \in {",", "}"} :
                    Contains(body[r],
                             Cat(Member(kPing, payload[r].m[kPing].lit), Str(<<d>>)))
               /\ LineIn(message[r], LblPing, payload[r].m[kPing].lit)
               /\ NoArtifact(payload[r].m[kPing].lit)
                    <=> ~Contains(message[r], Cat(LblPing, Str(<<"1","2",".">>)))
                          /\ ~Contains(message[r], Cat(LblPing, Str(<<"1",".">>)))

\* the ping 1.2e1 was forwarded as "Ping: 1.2e1"
C20_Witness ==
    \E r \in DOMAIN pc :
        /\ Handled(r)
        /\ PingIsNumber(r)
        /\ payload[r].m[kPing].lit = Str(<<"1",".","2","e","1">>)
        /\ Contains(message[r], Str(<<"P","i","n","g",":"," ","1",".","2","e","1","\n">>))

====
